---- MODULE Spec2Model ----
(***************************************************************************)
(* gorchestrate/gasync: the Firestore-backed workflow engine               *)
(* (FirestoreEngine: Lock, Unlock, Save, HandleEvent, HandleCallback,      *)
(* Resume, Get, ScheduleAndCreate), the Cloud Tasks scheduler              *)
(* (GTasksScheduler: Schedule, Setup, ResumeHandler, TimeoutHandler and    *)
(* the request signatures) and the HTTP handlers of NewServer.             *)
(*                                                                         *)
(* Every HTTP request is a process p.  A process step is one access to the *)
(* shared store or queue together with the local computation that follows  *)
(* it.  Time is a global clock counted in ticks; LockTill 0 is Go's zero    *)
(* time.Time, which lies before every instant of the clock.                *)
(***************************************************************************)
EXTENDS Integers, Sequences, FiniteSets, TLC

\* ------------------------------------------------------------------ bounds
NProcs == 2          \* concurrent requests of one run
MaxTime == 3         \* the clock runs from 1 to MaxTime
MaxAttempts == 1     \* iterations of Lock's loop explored per request in Spec
MaxLockIter == 53    \* iterations of Lock's loop explored per request in SpecLock
MaxVersion == 4      \* highest UpdateTime that outside Unlock calls produce in SpecLock

\* ------------------------------------------------------- program constants
Lease == 2           \* time.Minute, in ticks of 30 s
RetryLimit == 50     \* if i > 50

Procs == 1..NProcs
IDs == {"a", "b"}                 \* instance ids a request body may name
DocIDs == {"a"}                   \* the ids that create, event and get requests name
Workflows == {"checkout"}         \* fs.Workflows: the registered workflow names
WfNames == {"checkout", "nope"}   \* names a request may carry
Secret == "s"                     \* cfg.SignSecret
\* a DBWorkflow document with its UpdateTime; exists = FALSE: no such document
NoDoc == [exists |-> FALSE, Meta |-> [ID |-> "", Workflow |-> "", PC |-> 0],
          State |-> 0, LockTill |-> 0, UpdateTime |-> 0]

\* ----------------------------------------------------------- the signer
\* hmac.New(sha256.New, secret); h.Write(bytes); hex.EncodeToString(h.Sum(nil)):
\* the tag is an injective function of the key and of the bytes written.
Tag(secret, bytes) == <<"hmac", secret, bytes>>

\* ResumeRequest.HMAC
ResumeHMAC(secret, req) == Tag(secret, req.ID)

TimeoutHMACNoThread(secret, req) ==
    Tag(secret, req.Req.Name \o req.Req.WorkflowID \o ToString(req.Req.PC))

\* TimeoutReq.HMAC: the four fields are written one after another, no separator
TimeoutHMAC(secret, req) ==
    Tag(secret, req.Req.Name \o req.Req.ThreadID \o req.Req.WorkflowID
                \o ToString(req.Req.PC))

\* ------------------------------------------------------------- the store
\* time.Since(wf.LockTill) < 0
IsLockedNever(lockTill, t) == FALSE

IsLockedLate(lockTill, t) == t <= lockTill

IsLocked(lockTill, t) == t < lockTill

\* async.NewState(id, name)
NewState(id, name) == [ID |-> id, Workflow |-> name, PC |-> 0]

\* the interpreter's transition (async.HandleEvent, async.HandleCallback,
\* async.Resume) on success: it advances Meta and State together
StepMeta(meta) == [meta EXCEPT !.PC = @ + 1]
StepState(state) == state + 1

VARIABLES
    now,      \* the clock
    docs,     \* the collection: id -> document, or NoDoc
    tasks,    \* the Cloud Tasks queue: the set of task bodies created
    pc,       \* p -> where request p stands
    req,      \* p -> the HTTP request p serves
    op,       \* p -> the engine operation p runs ("none" before any engine call)
    lk,       \* p -> locals of Lock: attempt i, UpdateTime read, snapshot wf
    out,      \* p -> the engine's return and the HTTP status written
    sched,    \* p -> state of the goroutine that calls Scheduler.Schedule
    hist      \* history variables, read by the properties only

vars == <<now, docs, tasks, pc, req, op, lk, out, sched, hist>>

\* ---------------------------------------------------------------- values
NoWf == [Meta |-> NewState("", ""), State |-> 0, LockTill |-> 0]
NoReq == [kind |-> "none", id |-> "", name |-> "", body |-> <<>>, queued |-> FALSE]
NoLk == [i |-> 0, ver |-> 0, wf |-> NoWf]
NoOut == [ret |-> "none", status |-> 0]
NoSched == [st |-> "none", id |-> ""]

\* the callback requests the interpreter registers with Setup in these runs
CbName == "t"
CbThread == "m"
CallbackReq(meta) ==
    [Name |-> CbName, ThreadID |-> CbThread, WorkflowID |-> meta.ID, PC |-> meta.PC]

\* the bodies an arbitrary client may post to /resume and /callback/timeout
ForgedSig == Tag("x", "a")
\* (a valid body, a valid signature replayed with another id, a signature made
\* with another key)
ResumeBodies ==
    [ID : IDs, Signature : {ResumeHMAC(Secret, [ID |-> "a"]), ForgedSig}]
        \ {[ID |-> "b", Signature |-> ForgedSig]}
PostedCallback(id) == [Name |-> CbName, ThreadID |-> CbThread, WorkflowID |-> id, PC |-> 1]
TimeoutBodies ==
    [Req : {PostedCallback(id) : id \in IDs},
     Signature : {TimeoutHMAC(Secret, [Req |-> PostedCallback("a")]), ForgedSig}]
        \ {[Req |-> PostedCallback("b"), Signature |-> ForgedSig]}

\* Doc(id).Create(ctx, wf): the document it writes
CreatedDoc(wf) ==
    [exists |-> TRUE, Meta |-> wf.Meta, State |-> wf.State, LockTill |-> wf.LockTill,
     UpdateTime |-> 1]

\* the state value the caller of ScheduleAndCreate passes (wf() in the create handler)
InitialState == 0

\* ScheduleAndCreate: the wf it hands to Create once the interpreter's Resume,
\* run on a fresh s := w() and on &wf.Meta, has returned
CreatedWf(id, name) ==
    [Meta |-> StepMeta(NewState(id, name)), State |-> InitialState, LockTill |-> 0]

\* the server starts on a collection that is empty or that holds instance "a",
\* as ScheduleAndCreate leaves it
Init ==
    /\ now = 1
    /\ \E had \in BOOLEAN :
         /\ docs = [id \in IDs |-> IF had /\ id = "a"
                                    THEN CreatedDoc(CreatedWf("a", "checkout")) ELSE NoDoc]
         /\ hist = [lastAcq |-> [id \in IDs |-> 0],   \* the request whose Lock succeeded last
                    gen |-> [id \in IDs |-> IF had /\ id = "a" THEN 1 ELSE 0],
                                                      \* number of writes of Meta/State so far
                    base |-> [p \in Procs |-> 0],     \* gen of the snapshot p's Lock read
                    lockOk |-> [p \in Procs |-> FALSE],     \* p's Lock returned success
                    released |-> [p \in Procs |-> FALSE],   \* p issued the write that clears its lease
                    saved |-> [p \in Procs |-> 0]]          \* base of p's accepted Save, 0 if none
    /\ tasks = {}
    /\ pc = [p \in Procs |-> "idle"]
    /\ req = [p \in Procs |-> NoReq]
    /\ op = [p \in Procs |-> "none"]
    /\ lk = [p \in Procs |-> NoLk]
    /\ out = [p \in Procs |-> NoOut]
    /\ sched = [p \in Procs |-> NoSched]

\* ------------------------------------------------------ HTTP status codes
\* the status the handler of `kind` writes when engine operation `o` returns `ret`
\* (0: the engine was called directly, there is no HTTP reply)
StatusOf(kind, o, ret) ==
    IF kind = "Direct" THEN 0
    ELSE IF ret = "ok" THEN 200
    ELSE IF kind \in {"ResumeReq", "TimeoutReq"} THEN 500
    ELSE IF kind = "Create" /\ o = "ScheduleAndCreate" THEN 400
    ELSE IF kind = "Create" THEN 500
    ELSE 400

\* the engine operation of p returns ret and the handler replies; the locals
\* of the call are gone
Return(p, ret) ==
    /\ pc' = [pc EXCEPT ![p] = "done"]
    /\ out' = [out EXCEPT ![p] =
                  [ret |-> ret, status |-> StatusOf(req[p].kind, op[p], ret)]]
    /\ lk' = [lk EXCEPT ![p] = NoLk]

\* requests are interchangeable: the next one takes the lowest free process
Fresh(p) == pc[p] = "idle" /\ \A q \in Procs : q < p => pc[q] # "idle"

\* ---------------------------------------------------- the task scheduler
ResumeTaskUnsigned(id) ==
    [url |-> "resume", body |-> [ID |-> id, Signature |-> ResumeHMAC(Secret, [ID |-> ""])]]

\* GTasksScheduler.Schedule: the task it creates (req.ID is set, then signed)
ResumeTask(id) ==
    [url |-> "resume",
     body |-> [ID |-> id, Signature |-> ResumeHMAC(Secret, [ID |-> id])]]

\* GTasksScheduler.Setup: the task it creates for callback request r
TimeoutTask(r) ==
    [url |-> "timeout",
     body |-> [Req |-> r, Signature |-> TimeoutHMAC(Secret, [Req |-> r])]]

ResumeSigOKAlways(body) == TRUE

\* ResumeHandler: req.HMAC([]byte(mgr.Secret)) != req.Signature is rejected
ResumeSigOK(body) == ResumeHMAC(Secret, body) = body.Signature

TimeoutSigOKAlways(body) == TRUE

\* TimeoutHandler: req.HMAC([]byte(mgr.Secret)) != req.Signature is rejected
TimeoutSigOK(body) == TimeoutHMAC(Secret, body) = body.Signature

\* ------------------------------------------------------- requests arrive
\* SimpleEventHandler: POST /wf/{name}/{id}/{event} calls Engine.HandleEvent
StartEvent(p, id) ==
    /\ Fresh(p)
    /\ req' = [req EXCEPT ![p] = [NoReq EXCEPT !.kind = "Event", !.id = id]]
    /\ op' = [op EXCEPT ![p] = "HandleEvent"]
    /\ pc' = [pc EXCEPT ![p] = "lock_read"]
    /\ UNCHANGED <<now, docs, tasks, lk, out, sched, hist>>

\* ResumeHandler on a posted body: 403 on a signature mismatch, else Engine.Resume
ResumeHandler(p, body, queued) ==
    /\ Fresh(p)
    /\ req' = [req EXCEPT ![p] = [kind |-> "ResumeReq", id |-> body.ID, name |-> "",
                                  body |-> body, queued |-> queued]]
    /\ IF ResumeSigOK(body)
       THEN /\ op' = [op EXCEPT ![p] = "Resume"]
            /\ pc' = [pc EXCEPT ![p] = "lock_read"]
            /\ out' = out
       ELSE /\ op' = op
            /\ pc' = [pc EXCEPT ![p] = "done"]
            /\ out' = [out EXCEPT ![p] = [ret |-> "none", status |-> 403]]
    /\ UNCHANGED <<now, docs, tasks, lk, sched, hist>>

\* TimeoutHandler on a posted body: 403 on a signature mismatch, else
\* Engine.HandleCallback(req.Req.WorkflowID, req.Req)
TimeoutHandler(p, body, queued) ==
    /\ Fresh(p)
    /\ req' = [req EXCEPT ![p] = [kind |-> "TimeoutReq", id |-> body.Req.WorkflowID,
                                  name |-> "", body |-> body, queued |-> queued]]
    /\ IF TimeoutSigOK(body)
       THEN /\ op' = [op EXCEPT ![p] = "HandleCallback"]
            /\ pc' = [pc EXCEPT ![p] = "lock_read"]
            /\ out' = out
       ELSE /\ op' = op
            /\ pc' = [pc EXCEPT ![p] = "done"]
            /\ out' = [out EXCEPT ![p] = [ret |-> "none", status |-> 403]]
    /\ UNCHANGED <<now, docs, tasks, lk, sched, hist>>

\* a client posts a body to /resume
PostResume(p, body) == ResumeHandler(p, body, FALSE)

\* a client posts a body to /callback/timeout
PostTimeout(p, body) == TimeoutHandler(p, body, FALSE)

\* the queue delivers a task it holds: the body it was created with, posted to
\* the task's url (at least once: the task stays deliverable)
Deliver(p, t) ==
    /\ t \in tasks
    /\ IF t.url = "resume"
       THEN ResumeHandler(p, t.body, TRUE)
       ELSE TimeoutHandler(p, t.body, TRUE)

\* ------------------------------------------------------------------ Lock
\* the bound n of a specification on the iterations of Lock's loop
CanRetry(i, n) == i < n

LockReadBreaking(p, n) ==
    /\ pc[p] = "lock_read"
    /\ LET id == req[p].id
           d == docs[id]
       IN IF ~d.exists
          THEN /\ Return(p, "store_err")
               /\ UNCHANGED <<hist, docs>>
          ELSE IF IsLocked(d.LockTill, now)
               THEN IF lk[p].i > RetryLimit
                    THEN /\ Return(p, "lock_timeout")
                         /\ docs' = [docs EXCEPT ![id].LockTill = 0, ![id].UpdateTime = @ + 1]
                         /\ hist' = hist
                    ELSE /\ CanRetry(lk[p].i, n)
                         /\ lk' = [lk EXCEPT ![p].i = @ + 1]
                         /\ UNCHANGED <<pc, out, hist, docs>>
               ELSE /\ lk' = [lk EXCEPT ![p].ver = d.UpdateTime,
                                        ![p].wf = [Meta |-> d.Meta, State |-> d.State,
                                                   LockTill |-> d.LockTill]]
                    /\ hist' = [hist EXCEPT !.base[p] = hist.gen[id]]
                    /\ pc' = [pc EXCEPT ![p] = "lock_update"]
                    /\ UNCHANGED <<out, docs>>
    /\ UNCHANGED <<now, tasks, req, op, sched>>

\* Lock, one iteration up to the test of the lease: Get the document, decode
\* it, and compare LockTill with the clock
LockReadUpTo(p, n) ==
    /\ pc[p] = "lock_read"
    /\ LET id == req[p].id
           d == docs[id]
       IN IF ~d.exists
          THEN /\ Return(p, "store_err")
               /\ hist' = hist
          ELSE IF IsLocked(d.LockTill, now)
               THEN IF lk[p].i > RetryLimit
                    THEN /\ Return(p, "lock_timeout")
                         /\ hist' = hist
                    ELSE /\ CanRetry(lk[p].i, n)
                         /\ lk' = [lk EXCEPT ![p].i = @ + 1]
                         /\ UNCHANGED <<pc, out, hist>>
               ELSE /\ lk' = [lk EXCEPT ![p].ver = d.UpdateTime,
                                        ![p].wf = [Meta |-> d.Meta, State |-> d.State,
                                                   LockTill |-> d.LockTill]]
                    /\ hist' = [hist EXCEPT !.base[p] = hist.gen[id]]
                    /\ pc' = [pc EXCEPT ![p] = "lock_update"]
                    /\ out' = out
    /\ UNCHANGED <<now, docs, tasks, req, op, sched>>

\* Lock's read with the loop explored up to MaxAttempts iterations
LockRead(p) == LockReadUpTo(p, MaxAttempts)

\* the request of SpecLock whose Lock is followed through its whole loop
Watched == 1

\* Lock's read with the loop of the watched request explored up to MaxLockIter
\* iterations
LockReadLong(p) == LockReadUpTo(p, IF p = Watched THEN MaxLockIter ELSE MaxAttempts)

\* the precondition firestore.LastUpdateTime(t) of an update of document d
LastUpdateTimeAny(d, t) == TRUE

LastUpdateTimeSince(d, t) == d.UpdateTime >= t

LastUpdateTime(d, t) == d.UpdateTime = t

LeaseTillFixed(t) == Lease

\* time.Now().Add(time.Minute), the value Lock writes to LockTill at time t
LeaseTill(t) == t + Lease

\* Lock, the conditional update of LockTill and what follows it
LockUpdateUpTo(p, n) ==
    /\ pc[p] = "lock_update"
    /\ LET id == req[p].id
           d == docs[id]
       IN IF LastUpdateTime(d, lk[p].ver)
          THEN /\ docs' = [docs EXCEPT ![id].LockTill = LeaseTill(now),
                                       ![id].UpdateTime = @ + 1]
               /\ hist' = [hist EXCEPT !.lastAcq[id] = p, !.lockOk[p] = TRUE]
               /\ pc' = [pc EXCEPT ![p] = "locked"]
               /\ lk' = lk
          ELSE /\ CanRetry(lk[p].i, n)
               /\ lk' = [lk EXCEPT ![p].i = @ + 1]
               /\ pc' = [pc EXCEPT ![p] = "lock_read"]
               /\ UNCHANGED <<docs, hist>>
    /\ UNCHANGED <<now, tasks, req, op, out, sched>>

\* Lock's update with the loop explored up to MaxAttempts iterations
LockUpdate(p) == LockUpdateUpTo(p, MaxAttempts)

\* Lock's update with the loop of the watched request explored up to
\* MaxLockIter iterations
LockUpdateLong(p) == LockUpdateUpTo(p, IF p = Watched THEN MaxLockIter ELSE MaxAttempts)

LockUpdateErrIgnored(p) ==
    /\ pc[p] = "lock_update"
    /\ pc' = [pc EXCEPT ![p] = "locked"]
    /\ UNCHANGED <<now, docs, tasks, req, op, lk, out, sched, hist>>

\* Lock: the update fails with an error other than FailedPrecondition
LockUpdateErr(p) ==
    /\ pc[p] = "lock_update"
    /\ Return(p, "store_err")
    /\ hist' = [hist EXCEPT !.base[p] = 0]
    /\ UNCHANGED <<now, docs, tasks, req, op, sched>>

\* ---------------------------------------------------------------- Unlock
UnlockedDocKeep(d) == [d EXCEPT !.UpdateTime = @ + 1]

\* Unlock: the unconditional update it sends
UnlockedDoc(d) == [d EXCEPT !.LockTill = 0, !.UpdateTime = @ + 1]

\* Unlock(id) against the store: the update is applied if the document exists
\* and the store does not fail
Unlocked(id, ok) ==
    IF ok /\ docs[id].exists THEN [docs EXCEPT ![id] = UnlockedDoc(@)] ELSE docs

\* ------------------------------------------------------------------ Save
SavedDocKeepLock(d, wf, unlock) ==
    [d EXCEPT !.Meta = wf.Meta, !.State = wf.State, !.UpdateTime = @ + 1]

SavedDocAlwaysUnlock(d, wf, unlock) ==
    [d EXCEPT !.Meta = wf.Meta, !.State = wf.State, !.LockTill = 0,
              !.UpdateTime = @ + 1]

\* Save: the batch of one update of Meta and State, and of LockTill if unlock
SavedDoc(d, wf, unlock) ==
    [d EXCEPT !.Meta = wf.Meta, !.State = wf.State,
              !.LockTill = IF unlock THEN 0 ELSE @,
              !.UpdateTime = @ + 1]

\* ---------------------------------------- HandleEvent, HandleCallback, Resume
\* after Lock: the lookup in fs.Workflows, the decoding of wf.State, the call of
\* the interpreter, and for HandleEvent and HandleCallback the start of the
\* goroutine that calls Scheduler.Schedule.  During Resume the interpreter may
\* register a timeout with Setup.
Interpret(p, setups) ==
    /\ pc[p] = "locked"
    /\ LET wf == lk[p].wf
       IN IF wf.Meta.Workflow \notin Workflows
          THEN /\ pc' = [pc EXCEPT ![p] = "unlock"]
               /\ out' = [out EXCEPT ![p].ret = "wf_not_found"]
               /\ UNCHANGED <<lk, sched, tasks>>
          ELSE \E res \in {"ok", "deser_err", "interp_err"}, setup \in setups :
                 IF res = "ok"
                 THEN /\ setup => op[p] = "Resume"
                      /\ lk' = [lk EXCEPT ![p].wf.Meta = StepMeta(wf.Meta),
                                          ![p].wf.State = StepState(wf.State)]
                      /\ tasks' = IF setup
                                  THEN tasks \cup {TimeoutTask(CallbackReq(StepMeta(wf.Meta)))}
                                  ELSE tasks
                      /\ sched' = IF op[p] \in {"HandleEvent", "HandleCallback"}
                                  THEN [sched EXCEPT ![p] = [st |-> "running", id |-> wf.Meta.ID]]
                                  ELSE sched
                      /\ pc' = [pc EXCEPT ![p] = "save"]
                      /\ out' = out
                 ELSE /\ ~setup
                      /\ pc' = [pc EXCEPT ![p] = "unlock"]
                      /\ out' = [out EXCEPT ![p].ret = res]
                      /\ UNCHANGED <<lk, sched, tasks>>
    /\ UNCHANGED <<now, docs, req, op, hist>>

\* the interpreter registers no timeout
Invoke(p) == Interpret(p, {FALSE})

\* the interpreter may register a timeout
InvokeSetup(p) == Interpret(p, BOOLEAN)

UnlockStepSkipped(p) ==
    /\ pc[p] = "unlock"
    /\ hist' = [hist EXCEPT !.base[p] = 0]
    /\ Return(p, out[p].ret)
    /\ UNCHANGED <<now, docs, tasks, req, op, sched>>

\* the error paths' _ = fs.Unlock(ctx, id), then the return of the error
UnlockStep(p) ==
    /\ pc[p] = "unlock"
    /\ \E ok \in BOOLEAN : docs' = Unlocked(req[p].id, ok)
    /\ hist' = [hist EXCEPT !.released[p] = TRUE, !.base[p] = 0]
    /\ Return(p, out[p].ret)
    /\ UNCHANGED <<now, tasks, req, op, sched>>

\* fs.Save(ctx, &wf, &state, true) is accepted by the store; Resume returns,
\* HandleEvent and HandleCallback go on to wg.Wait()
SaveStep(p) ==
    /\ pc[p] = "save"
    /\ LET id == lk[p].wf.Meta.ID
       IN /\ docs[id].exists
          /\ docs' = [docs EXCEPT ![id] = SavedDoc(@, lk[p].wf, TRUE)]
          /\ hist' = [hist EXCEPT !.gen[id] = @ + 1,
                                  !.saved[p] = hist.base[p],
                                  !.released[p] = docs'[id].LockTill = 0,
                                  !.base[p] = IF op[p] = "Resume" THEN 0 ELSE @]
    /\ IF op[p] = "Resume"
       THEN Return(p, "ok")
       ELSE /\ pc' = [pc EXCEPT ![p] = "wait"]
            /\ UNCHANGED <<out, lk>>
    /\ UNCHANGED <<now, tasks, req, op, sched>>

\* fs.Save returns an error: the operation returns it at once
SaveErr(p) ==
    /\ pc[p] = "save"
    /\ Return(p, "save_err")
    /\ hist' = [hist EXCEPT !.base[p] = 0]
    /\ UNCHANGED <<now, docs, tasks, req, op, sched>>

ScheduleStepFatal(p) ==
    /\ sched[p].st = "running"
    /\ \E ok \in BOOLEAN :
         /\ tasks' = IF ok THEN tasks \cup {ResumeTask(sched[p].id)} ELSE tasks
         /\ out' = IF ok THEN out ELSE [out EXCEPT ![p].ret = "sched_err"]
    /\ sched' = [sched EXCEPT ![p].st = "finished"]
    /\ UNCHANGED <<now, docs, pc, req, op, lk, hist>>

\* the goroutine: Scheduler.Schedule(ctx, wf.Meta.ID), whose error is only logged
ScheduleStep(p) ==
    /\ sched[p].st = "running"
    /\ \E ok \in BOOLEAN :
         tasks' = IF ok THEN tasks \cup {ResumeTask(sched[p].id)} ELSE tasks
    /\ sched' = [sched EXCEPT ![p].st = "finished"]
    /\ UNCHANGED <<now, docs, pc, req, op, lk, out, hist>>

\* wg.Wait() returns once the goroutine has finished; the operation returns out, nil
Wait(p) ==
    /\ pc[p] = "wait"
    /\ sched[p].st = "finished"
    /\ Return(p, "ok")
    /\ hist' = [hist EXCEPT !.base[p] = 0]
    /\ UNCHANGED <<now, docs, tasks, req, op, sched>>

\* ----------------------------------------------------- ScheduleAndCreate
\* ScheduleAndCreate up to its first store call: wf is built from
\* async.NewState and the state passed in, the name is looked up, and the
\* interpreter's Resume runs on a fresh s := w() and on &wf.Meta
ScheduleAndCreate(p, kind, id, name, setups) ==
    /\ req' = [req EXCEPT ![p] = [NoReq EXCEPT !.kind = kind, !.id = id, !.name = name]]
    /\ op' = [op EXCEPT ![p] = "ScheduleAndCreate"]
    /\ IF name \notin Workflows
       THEN /\ pc' = [pc EXCEPT ![p] = "sc_unlock"]
            /\ out' = [out EXCEPT ![p].ret = "wf_not_found"]
            /\ UNCHANGED <<lk, tasks>>
       ELSE \E res \in {"ok", "interp_err"}, setup \in setups :
              IF res = "ok"
              THEN /\ lk' = [lk EXCEPT ![p].wf = CreatedWf(id, name)]
                   /\ tasks' = IF setup
                               THEN tasks \cup {TimeoutTask(CallbackReq(
                                                    CreatedWf(id, name).Meta))}
                               ELSE tasks
                   /\ pc' = [pc EXCEPT ![p] = "sc_create"]
                   /\ out' = out
              ELSE /\ ~setup
                   /\ pc' = [pc EXCEPT ![p] = "sc_unlock"]
                   /\ out' = [out EXCEPT ![p].ret = res]
                   /\ UNCHANGED <<lk, tasks>>
    /\ UNCHANGED <<now, docs, sched, hist>>

\* POST /wf/{name}/{id}: an unregistered name is answered at once, a registered
\* one calls Engine.ScheduleAndCreate(id, name, wf())
CreateHandler(p, id, name, setups) ==
    /\ Fresh(p)
    /\ IF name \in Workflows
       THEN ScheduleAndCreate(p, "Create", id, name, setups)
       ELSE /\ req' = [req EXCEPT ![p] = [NoReq EXCEPT !.kind = "Create", !.id = id,
                                                       !.name = name]]
            /\ pc' = [pc EXCEPT ![p] = "done"]
            /\ out' = [out EXCEPT ![p] = [ret |-> "none", status |-> 200]]
            /\ UNCHANGED <<now, docs, tasks, op, lk, sched, hist>>

\* a caller of the library calls Engine.ScheduleAndCreate itself
DirectCreate(p, id, name) ==
    /\ Fresh(p)
    /\ ScheduleAndCreate(p, "Direct", id, name, {FALSE})

\* ScheduleAndCreate's error paths: _ = fs.Unlock(ctx, id), then the error
SCUnlock(p) ==
    /\ pc[p] = "sc_unlock"
    /\ \E ok \in BOOLEAN : docs' = Unlocked(req[p].id, ok)
    /\ Return(p, out[p].ret)
    /\ UNCHANGED <<now, tasks, req, op, sched, hist>>

SCCreateSet(p) ==
    /\ pc[p] = "sc_create"
    /\ LET id == req[p].id
       IN /\ docs' = [docs EXCEPT ![id] = CreatedDoc(lk[p].wf)]
          /\ hist' = [hist EXCEPT !.gen[id] = 1]
          /\ IF req[p].kind = "Create"
             THEN /\ op' = [op EXCEPT ![p] = "Resume"]
                  /\ pc' = [pc EXCEPT ![p] = "lock_read"]
                  /\ lk' = [lk EXCEPT ![p] = NoLk]
                  /\ out' = out
             ELSE /\ Return(p, "ok")
                  /\ op' = op
    /\ UNCHANGED <<now, tasks, req, sched>>

\* Doc(id).Create(ctx, wf); on success the create handler goes on to call
\* Engine.Resume(id)
SCCreate(p) ==
    /\ pc[p] = "sc_create"
    /\ LET id == req[p].id
       IN IF docs[id].exists
          THEN /\ Return(p, "exists")
               /\ UNCHANGED <<docs, op, hist>>
          ELSE /\ docs' = [docs EXCEPT ![id] = CreatedDoc(lk[p].wf)]
               /\ hist' = [hist EXCEPT !.gen[id] = 1]
               /\ IF req[p].kind = "Create"
                  THEN /\ op' = [op EXCEPT ![p] = "Resume"]
                       /\ pc' = [pc EXCEPT ![p] = "lock_read"]
                       /\ lk' = [lk EXCEPT ![p] = NoLk]
                       /\ out' = out
                  ELSE /\ Return(p, "ok")
                       /\ op' = op
    /\ UNCHANGED <<now, tasks, req, sched>>

\* ------------------------------------------------------------------- Get
GetUnlocked(p, id) ==
    /\ Fresh(p)
    /\ req' = [req EXCEPT ![p] = [NoReq EXCEPT !.kind = "Get", !.id = id]]
    /\ op' = [op EXCEPT ![p] = "Get"]
    /\ pc' = [pc EXCEPT ![p] = "done"]
    /\ LET d == docs[id]
       IN IF d.exists /\ ~IsLocked(d.LockTill, now)
          THEN /\ lk' = [lk EXCEPT ![p].wf = [Meta |-> d.Meta, State |-> d.State,
                                              LockTill |-> d.LockTill]]
               /\ out' = [out EXCEPT ![p] = [ret |-> "ok", status |-> 200]]
          ELSE /\ lk' = lk
               /\ out' = [out EXCEPT ![p] = [ret |-> "store_err", status |-> 400]]
    /\ UNCHANGED <<now, docs, tasks, sched, hist>>

\* GET /wf/{id}: Engine.Get reads the document and returns it
Get(p, id) ==
    /\ Fresh(p)
    /\ req' = [req EXCEPT ![p] = [NoReq EXCEPT !.kind = "Get", !.id = id]]
    /\ op' = [op EXCEPT ![p] = "Get"]
    /\ pc' = [pc EXCEPT ![p] = "done"]
    /\ LET d == docs[id]
       IN IF d.exists
          THEN /\ lk' = [lk EXCEPT ![p].wf = [Meta |-> d.Meta, State |-> d.State,
                                              LockTill |-> d.LockTill]]
               /\ out' = [out EXCEPT ![p] = [ret |-> "ok", status |-> 200]]
          ELSE /\ lk' = lk
               /\ out' = [out EXCEPT ![p] = [ret |-> "store_err", status |-> 400]]
    /\ UNCHANGED <<now, docs, tasks, sched, hist>>

\* ---------------------------------------------------------- environment
\* time passes
Tick ==
    /\ now < MaxTime
    /\ now' = now + 1
    /\ UNCHANGED <<docs, tasks, pc, req, op, lk, out, sched, hist>>

\* the engine under concurrent event, create and library requests, with time
\* passing.  The queue is written and never read here, so the interpreter's
\* Setup calls are left to SpecHttp.
Next ==
    \/ Tick
    \/ \E p \in Procs :
         \/ \E id \in DocIDs : StartEvent(p, id)
         \/ \E id \in DocIDs, name \in WfNames : CreateHandler(p, id, name, {FALSE})
         \/ \E id \in DocIDs, name \in WfNames : DirectCreate(p, id, name)
         \/ LockRead(p)
         \/ LockUpdate(p)
         \/ LockUpdateErr(p)
         \/ Invoke(p)
         \/ UnlockStep(p)
         \/ SaveStep(p)
         \/ SaveErr(p)
         \/ ScheduleStep(p)
         \/ Wait(p)
         \/ SCUnlock(p)
         \/ SCCreate(p)

Spec == Init /\ [][Next]_vars

\* the HTTP front end: create, event, get, /resume and /callback/timeout
\* requests posted by clients or delivered by the queue, at one instant of the
\* clock
NextHttp ==
    \E p \in Procs :
         \/ \E id \in DocIDs : StartEvent(p, id)
         \/ \E id \in DocIDs : CreateHandler(p, id, "checkout", BOOLEAN)
         \/ \E id \in DocIDs : Get(p, id)
         \/ \E body \in ResumeBodies : PostResume(p, body)
         \/ \E body \in TimeoutBodies : PostTimeout(p, body)
         \/ \E t \in tasks : Deliver(p, t)
         \/ LockRead(p)
         \/ LockUpdate(p)
         \/ InvokeSetup(p)
         \/ UnlockStep(p)
         \/ SaveStep(p)
         \/ SaveErr(p)
         \/ ScheduleStep(p)
         \/ Wait(p)
         \/ SCUnlock(p)
         \/ SCCreate(p)

SpecHttp == Init /\ [][NextHttp]_vars

\* the signer alone: one request posted to /callback/timeout or /resume, its
\* fields and its signature drawn from every combination of the values below
SigNames == {"a", "ab"}
SigThreads == {"", "b"}
SigPCs == {1, 11}
SigCallbacks == [Name : SigNames, ThreadID : SigThreads, WorkflowID : IDs, PC : SigPCs]
SigTimeoutBodies ==
    [Req : SigCallbacks, Signature : {TimeoutHMAC(Secret, [Req |-> u]) : u \in SigCallbacks}]
SigResumeBodies ==
    [ID : IDs, Signature : {ResumeHMAC(Secret, [ID |-> id]) : id \in IDs}]

NextSig ==
    \E p \in Procs :
         /\ \A q \in Procs : pc[q] = "idle"
         /\ \/ \E body \in SigTimeoutBodies : PostTimeout(p, body)
            \/ \E body \in SigResumeBodies : PostResume(p, body)

SpecSig == Init /\ [][NextSig]_vars

\* Unlock(id) called by a request outside Procs (ScheduleAndCreate of another
\* replica on one of its error paths, or a caller of the library): one
\* unconditional update
UnlockCall(id) ==
    /\ docs[id].exists
    /\ docs[id].UpdateTime < MaxVersion
    /\ docs' = Unlocked(id, TRUE)
    /\ UNCHANGED <<now, tasks, pc, req, op, lk, out, sched, hist>>

\* Lock under contention: event requests and redelivered resume and timeout
\* tasks whose Lock loop runs to its end, against holders that stall and
\* against updates of other replicas, at one instant of the clock
NextLock ==
    \/ \E id \in DocIDs : UnlockCall(id)
    \/ \E p \in Procs :
         \/ \E id \in DocIDs : StartEvent(p, id)
         \/ \E id \in DocIDs : ResumeHandler(p, ResumeTask(id).body, TRUE)
         \/ \E id \in DocIDs : TimeoutHandler(p, TimeoutTask(PostedCallback(id)).body, TRUE)
         \/ LockReadLong(p)
         \/ LockUpdateLong(p)
         \/ LockUpdateErr(p)
         \/ Invoke(p)
         \/ UnlockStep(p)
         \/ SaveStep(p)
         \/ SaveErr(p)
         \/ ScheduleStep(p)
         \/ Wait(p)

SpecLock == Init /\ [][NextLock]_vars

\* a caller of the library calls Engine.Lock(id) itself
DirectLock(p, id) ==
    /\ Fresh(p)
    /\ req' = [req EXCEPT ![p] = [NoReq EXCEPT !.kind = "Direct", !.id = id]]
    /\ op' = [op EXCEPT ![p] = "Lock"]
    /\ pc' = [pc EXCEPT ![p] = "lock_read"]
    /\ UNCHANGED <<now, docs, tasks, lk, out, sched, hist>>

\* the caller that holds the wf returned by Lock advances it and calls
\* Engine.Save(&wf, &state, unlock), which the store accepts; with unlock it is
\* done, without it goes on to call Engine.Unlock(id)
DirectSave(p, unlock) ==
    /\ pc[p] = "locked" /\ op[p] = "Lock"
    /\ LET wf == [lk[p].wf EXCEPT !.Meta = StepMeta(@), !.State = StepState(@)]
           id == wf.Meta.ID
       IN /\ docs[id].exists
          /\ docs' = [docs EXCEPT ![id] = SavedDoc(@, wf, unlock)]
          /\ hist' = [hist EXCEPT !.gen[id] = @ + 1,
                                  !.saved[p] = hist.base[p],
                                  !.released[p] = unlock,
                                  !.base[p] = IF unlock THEN 0 ELSE @]
          /\ IF unlock
             THEN Return(p, "ok")
             ELSE /\ pc' = [pc EXCEPT ![p] = "unlock"]
                  /\ lk' = [lk EXCEPT ![p].wf = wf]
                  /\ out' = [out EXCEPT ![p].ret = "ok"]
    /\ UNCHANGED <<now, tasks, req, op, sched>>

\* the store's primitives called one after another by users of the library:
\* Lock, Save with and without unlock, Unlock, with time passing
NextSave ==
    \/ Tick
    \/ \E p \in Procs :
         \/ \E id \in DocIDs : DirectLock(p, id)
         \/ LockRead(p)
         \/ LockUpdate(p)
         \/ \E unlock \in BOOLEAN : DirectSave(p, unlock)
         \/ UnlockStep(p)

SpecSave == Init /\ [][NextSave]_vars

\* the server was restarted with a Workflows map that no longer holds the type
\* of instance "b", created by an earlier deployment; instance "a" is as in Init
RetiredWorkflow == "nope"
InitRetired ==
    /\ now = 1
    /\ \E had \in BOOLEAN :
         /\ docs = [id \in IDs |->
                       IF id = "b" THEN CreatedDoc(CreatedWf("b", RetiredWorkflow))
                       ELSE IF had THEN CreatedDoc(CreatedWf(id, "checkout")) ELSE NoDoc]
         /\ hist = [lastAcq |-> [id \in IDs |-> 0],
                    gen |-> [id \in IDs |-> IF id = "b" \/ had THEN 1 ELSE 0],
                    base |-> [p \in Procs |-> 0],
                    lockOk |-> [p \in Procs |-> FALSE],
                    released |-> [p \in Procs |-> FALSE],
                    saved |-> [p \in Procs |-> 0]]
    /\ tasks = {}
    /\ pc = [p \in Procs |-> "idle"]
    /\ req = [p \in Procs |-> NoReq]
    /\ op = [p \in Procs |-> "none"]
    /\ lk = [p \in Procs |-> NoLk]
    /\ out = [p \in Procs |-> NoOut]
    /\ sched = [p \in Procs |-> NoSched]

\* events and redelivered resume and timeout tasks for both instances, at one
\* instant of the clock
NextRetired ==
    \E p \in Procs :
         \/ \E id \in IDs : StartEvent(p, id)
         \/ \E id \in IDs : ResumeHandler(p, ResumeTask(id).body, TRUE)
         \/ \E id \in IDs : TimeoutHandler(p, TimeoutTask(PostedCallback(id)).body, TRUE)
         \/ LockRead(p)
         \/ LockUpdate(p)
         \/ LockUpdateErr(p)
         \/ Invoke(p)
         \/ UnlockStep(p)
         \/ SaveStep(p)
         \/ SaveErr(p)
         \/ ScheduleStep(p)
         \/ Wait(p)

SpecRetired == InitRetired /\ [][NextRetired]_vars

\* --------------------------------------------------- redundant resumes
\* the create handler once ScheduleAndCreate has returned nil: it calls
\* Engine.Resume(id) inline; an id is created once, so one request does this
InlineResume(p, id) ==
    /\ Fresh(p)
    /\ docs[id].exists
    /\ \A q \in Procs : req[q].kind # "Create"
    /\ req' = [req EXCEPT ![p] = [NoReq EXCEPT !.kind = "Create", !.id = id,
                                                !.name = docs[id].Meta.Workflow]]
    /\ op' = [op EXCEPT ![p] = "Resume"]
    /\ pc' = [pc EXCEPT ![p] = "lock_read"]
    /\ UNCHANGED <<now, docs, tasks, lk, out, sched, hist>>

\* the inline Resume of a created instance and the deliveries of its resume
\* task by the queue, in any order, within the time of one lease
NextResume ==
    \E p \in Procs :
         \/ \E id \in DocIDs : InlineResume(p, id)
         \/ \E id \in DocIDs : ResumeHandler(p, ResumeTask(id).body, TRUE)
         \/ LockRead(p)
         \/ LockUpdate(p)
         \/ LockUpdateErr(p)
         \/ Invoke(p)
         \/ UnlockStep(p)
         \/ SaveStep(p)
         \/ SaveErr(p)

SpecResume == Init /\ [][NextResume]_vars

\* ------------------------------------- the earlier revision's HandleEvent
\* every instance has been created
InitVariant ==
    /\ now = 1
    /\ docs = [id \in IDs |-> CreatedDoc(CreatedWf(id, "checkout"))]
    /\ hist = [lastAcq |-> [id \in IDs |-> 0],
               gen |-> [id \in IDs |-> 1],
               base |-> [p \in Procs |-> 0],
               lockOk |-> [p \in Procs |-> FALSE],
               released |-> [p \in Procs |-> FALSE],
               saved |-> [p \in Procs |-> 0]]
    /\ tasks = {}
    /\ pc = [p \in Procs |-> "idle"]
    /\ req = [p \in Procs |-> NoReq]
    /\ op = [p \in Procs |-> "none"]
    /\ lk = [p \in Procs |-> NoLk]
    /\ out = [p \in Procs |-> NoOut]
    /\ sched = [p \in Procs |-> NoSched]

\* no request has been made on instance id
NoRequestOn(id) == \A q \in Procs : req[q].id # id

\* an event posted to a server of the earlier revision: HandleEvent calls Lock
StartEventSeq(p, id) ==
    /\ Fresh(p)
    /\ req' = [req EXCEPT ![p] = [NoReq EXCEPT !.kind = "Event", !.id = id]]
    /\ op' = [op EXCEPT ![p] = "HandleEventSeq"]
    /\ pc' = [pc EXCEPT ![p] = "lock_read"]
    /\ UNCHANGED <<now, docs, tasks, lk, out, sched, hist>>

\* after Lock and defer fs.Unlock: the lookup in fs.Workflows, the decoding of
\* wf.State and the call of async.HandleEvent
InvokeSeq(p) ==
    /\ pc[p] = "locked"
    /\ op[p] = "HandleEventSeq"
    /\ LET wf == lk[p].wf
       IN IF wf.Meta.Workflow \notin Workflows
          THEN /\ pc' = [pc EXCEPT ![p] = "seq_unlock"]
               /\ out' = [out EXCEPT ![p].ret = "wf_not_found"]
               /\ lk' = lk
          ELSE \E res \in {"ok", "deser_err", "interp_err"} :
                 IF res = "ok"
                 THEN /\ lk' = [lk EXCEPT ![p].wf.Meta = StepMeta(wf.Meta),
                                          ![p].wf.State = StepState(wf.State)]
                      /\ pc' = [pc EXCEPT ![p] = "cp_schedule"]
                      /\ out' = out
                 ELSE /\ pc' = [pc EXCEPT ![p] = "seq_unlock"]
                      /\ out' = [out EXCEPT ![p].ret = res]
                      /\ lk' = lk
    /\ UNCHANGED <<now, docs, tasks, req, op, sched, hist>>

\* Checkpoint(...)(true): Scheduler.Schedule first; its error is returned
CheckpointSchedule(p) ==
    /\ pc[p] = "cp_schedule"
    /\ \E ok \in BOOLEAN :
         IF ok
         THEN /\ tasks' = tasks \cup {ResumeTask(lk[p].wf.Meta.ID)}
              /\ pc' = [pc EXCEPT ![p] = "cp_commit"]
              /\ out' = out
         ELSE /\ tasks' = tasks
              /\ pc' = [pc EXCEPT ![p] = "seq_unlock"]
              /\ out' = [out EXCEPT ![p].ret = "save_err"]
    /\ UNCHANGED <<now, docs, req, op, lk, sched, hist>>

CheckpointCommitState(p) ==
    /\ pc[p] = "cp_commit"
    /\ LET id == lk[p].wf.Meta.ID
       IN /\ docs' = [docs EXCEPT ![id].State = lk[p].wf.State, ![id].UpdateTime = @ + 1]
          /\ hist' = [hist EXCEPT !.gen[id] = @ + 1, !.saved[p] = hist.base[p]]
          /\ out' = [out EXCEPT ![p].ret = "ok"]
    /\ pc' = [pc EXCEPT ![p] = "seq_unlock"]
    /\ UNCHANGED <<now, tasks, req, op, lk, sched>>

\* Checkpoint: the batch that updates Meta and State (and sets the log entry,
\* which is another collection) is committed or fails as a whole
CheckpointCommit(p) ==
    /\ pc[p] = "cp_commit"
    /\ LET id == lk[p].wf.Meta.ID
       IN \E ok \in BOOLEAN :
            IF ok /\ docs[id].exists
            THEN /\ docs' = [docs EXCEPT ![id] = SavedDoc(@, lk[p].wf, FALSE)]
                 /\ hist' = [hist EXCEPT !.gen[id] = @ + 1, !.saved[p] = hist.base[p]]
                 /\ out' = [out EXCEPT ![p].ret = "ok"]
            ELSE /\ out' = [out EXCEPT ![p].ret = "save_err"]
                 /\ UNCHANGED <<docs, hist>>
    /\ pc' = [pc EXCEPT ![p] = "seq_unlock"]
    /\ UNCHANGED <<now, tasks, req, op, lk, sched>>

\* the deferred fs.Unlock(ctx, id) runs as HandleEvent returns; its error is
\* dropped
DeferredUnlock(p) ==
    /\ pc[p] = "seq_unlock"
    /\ \E ok \in BOOLEAN : docs' = Unlocked(req[p].id, ok)
    /\ hist' = [hist EXCEPT !.released[p] = TRUE, !.base[p] = 0]
    /\ Return(p, out[p].ret)
    /\ UNCHANGED <<now, tasks, req, op, sched>>

\* one event per instance, handled by either revision of HandleEvent, with no
\* other request on that instance
NextVariant ==
    \E p \in Procs :
         \/ \E id \in IDs : NoRequestOn(id) /\ StartEventSeq(p, id)
         \/ \E id \in IDs : NoRequestOn(id) /\ StartEvent(p, id)
         \/ LockRead(p)
         \/ LockUpdate(p)
         \/ LockUpdateErr(p)
         \/ InvokeSeq(p)
         \/ CheckpointSchedule(p)
         \/ CheckpointCommit(p)
         \/ DeferredUnlock(p)
         \/ op[p] = "HandleEvent" /\ Invoke(p)
         \/ UnlockStep(p)
         \/ SaveStep(p)
         \/ SaveErr(p)
         \/ ScheduleStep(p)
         \/ Wait(p)

SpecVariant == InitVariant /\ [][NextVariant]_vars

\* ------------------------------------------------- Lock's waits, in time
\* time.Minute, the lease of Lock, in ticks of 100 ms
LeaseTicks == 600

BackoffFlat(i) == 1

\* time.Sleep(time.Millisecond * 100 * time.Duration(i)), in ticks of 100 ms
Backoff(i) == i

\* instance a carries the lease of a request that has crashed: it ends r ticks
\* from now, at most a whole lease
InitBackoff ==
    /\ now = 1
    /\ \E r \in 1..LeaseTicks :
         docs = [id \in IDs |->
                    IF id = "a"
                    THEN [CreatedDoc(CreatedWf("a", "checkout"))
                              EXCEPT !.LockTill = now + r, !.UpdateTime = @ + 1]
                    ELSE NoDoc]
    /\ hist = [lastAcq |-> [id \in IDs |-> 0],
               gen |-> [id \in IDs |-> IF id = "a" THEN 1 ELSE 0],
               base |-> [p \in Procs |-> 0],
               lockOk |-> [p \in Procs |-> FALSE],
               released |-> [p \in Procs |-> FALSE],
               saved |-> [p \in Procs |-> 0]]
    /\ tasks = {}
    /\ pc = [p \in Procs |-> "idle"]
    /\ req = [p \in Procs |-> NoReq]
    /\ op = [p \in Procs |-> "none"]
    /\ lk = [p \in Procs |-> NoLk]
    /\ out = [p \in Procs |-> NoOut]
    /\ sched = [p \in Procs |-> NoSched]

\* Lock, the read of the document and what follows it, with the time its
\* Sleep takes
LockReadSleep(p) ==
    /\ pc[p] = "lock_read"
    /\ LET id == req[p].id
           d == docs[id]
       IN IF ~d.exists
          THEN /\ Return(p, "store_err")
               /\ UNCHANGED <<now, hist>>
          ELSE IF IsLocked(d.LockTill, now)
               THEN IF lk[p].i > RetryLimit
                    THEN /\ Return(p, "lock_timeout")
                         /\ UNCHANGED <<now, hist>>
                    ELSE /\ now' = now + Backoff(lk[p].i)
                         /\ lk' = [lk EXCEPT ![p].i = @ + 1]
                         /\ UNCHANGED <<pc, out, hist>>
               ELSE /\ lk' = [lk EXCEPT ![p].ver = d.UpdateTime,
                                        ![p].wf = [Meta |-> d.Meta, State |-> d.State,
                                                   LockTill |-> d.LockTill]]
                    /\ hist' = [hist EXCEPT !.base[p] = hist.gen[id]]
                    /\ pc' = [pc EXCEPT ![p] = "lock_update"]
                    /\ UNCHANGED <<now, out>>
    /\ UNCHANGED <<docs, tasks, req, op, sched>>

\* Lock, the conditional update of LockTill to a minute from now, in ticks
LockUpdateTicks(p) ==
    /\ pc[p] = "lock_update"
    /\ LET id == req[p].id
           d == docs[id]
       IN IF LastUpdateTime(d, lk[p].ver)
          THEN /\ docs' = [docs EXCEPT ![id].LockTill = now + LeaseTicks,
                                       ![id].UpdateTime = @ + 1]
               /\ hist' = [hist EXCEPT !.lastAcq[id] = p, !.lockOk[p] = TRUE]
               /\ pc' = [pc EXCEPT ![p] = "locked"]
               /\ lk' = lk
          ELSE /\ lk' = [lk EXCEPT ![p].i = @ + 1]
               /\ pc' = [pc EXCEPT ![p] = "lock_read"]
               /\ UNCHANGED <<docs, hist>>
    /\ UNCHANGED <<now, tasks, req, op, out, sched>>

\* one HandleEvent whose Lock meets the abandoned lease and no other request
NextBackoff ==
    \E p \in Procs :
         \/ \E id \in DocIDs : NoRequestOn(id) /\ StartEvent(p, id)
         \/ LockReadSleep(p)
         \/ LockUpdateTicks(p)

SpecBackoff == InitBackoff /\ [][NextBackoff]_vars

\* the Lock call is a running goroutine: it goes on taking its steps
SpecBackoffFair == SpecBackoff /\ WF_vars(NextBackoff)

\* ------------------------------------------- both handlers, one secret
\* an instance id a client may choose in POST /wf/{name}/{id}: the bytes that
\* TimeoutReq.HMAC writes for the callback (a, "", a, 1)
LongID == "aa1"
CrossIDs == IDs \cup {LongID}

\* the bodies a client can post once it has seen the signed bodies of the
\* resume tasks and timeout tasks of its instances: any request with any of
\* their signatures
CrossSignatures ==
    {ResumeHMAC(Secret, [ID |-> id]) : id \in CrossIDs}
        \cup {TimeoutHMAC(Secret, [Req |-> u]) : u \in SigCallbacks}
CrossResumeBodies == [ID : CrossIDs, Signature : CrossSignatures]
CrossTimeoutBodies == [Req : SigCallbacks, Signature : CrossSignatures]

\* NewServer gives cfg.SignSecret to both schedulers: one request at a time is
\* posted to /resume or to /callback/timeout and meets the signature test
NextCross ==
    \E p \in Procs :
         /\ \A q \in Procs : pc[q] = "idle"
         /\ \/ \E body \in CrossTimeoutBodies : PostTimeout(p, body)
            \/ \E body \in CrossResumeBodies : PostResume(p, body)

SpecCross == Init /\ [][NextCross]_vars

\* ------------------------------------------------------ Setup and Teardown
\* resp.Name: the name the queue gives to a task it created
TaskName(t) == <<"task", t>>
NoName == <<>>

\* json.Marshal(GTasksSchedulerData{ID: resp.Name}), the handle that Setup
\* returns and that the interpreter keeps in req.SetupData
SetupHandle(name) == [json |-> TRUE, ID |-> name]

\* the SetupData of a callback for which Setup returned "", err
EmptyData == [json |-> FALSE, ID |-> NoName]

\* json.Unmarshal([]byte(req.SetupData), &data): the error, and data.ID
UnmarshalFails(data) == ~data.json
UnmarshalID(data) == IF data.json THEN data.ID ELSE NoName

\* the callbacks whose timeouts are set up and torn down in SpecTimer
TimerCallbacks ==
    {CallbackReq([ID |-> "a", Workflow |-> "checkout", PC |-> n]) : n \in 1..2}
TimerData == {SetupHandle(TaskName(TimeoutTask(c))) : c \in TimerCallbacks} \cup {EmptyData}

\* GTasksScheduler.Setup(r): one Tasks.Create call; on success the handle of
\* the created task is returned
Setup(p, r) ==
    /\ Fresh(p)
    /\ req' = [req EXCEPT ![p] = [NoReq EXCEPT !.kind = "Setup", !.id = r.WorkflowID,
                                                !.body = [Req |-> r]]]
    /\ op' = [op EXCEPT ![p] = "Setup"]
    /\ pc' = [pc EXCEPT ![p] = "done"]
    /\ \E ok \in BOOLEAN :
         /\ tasks' = IF ok THEN tasks \cup {TimeoutTask(r)} ELSE tasks
         /\ out' = [out EXCEPT ![p] = [ret |-> IF ok THEN "ok" ELSE "create_err",
                                       status |-> 0]]
    /\ UNCHANGED <<now, docs, lk, sched, hist>>

TeardownAlways(p, r, data, handled) ==
    /\ Fresh(p)
    /\ req' = [req EXCEPT ![p] = [NoReq EXCEPT !.kind = "Teardown", !.id = r.WorkflowID,
                                                !.body = [Req |-> r, SetupData |-> data,
                                                          handled |-> handled]]]
    /\ op' = [op EXCEPT ![p] = "Teardown"]
    /\ IF UnmarshalFails(data)
       THEN /\ pc' = [pc EXCEPT ![p] = "done"]
            /\ out' = [out EXCEPT ![p] = [ret |-> "json_err", status |-> 0]]
       ELSE /\ pc' = [pc EXCEPT ![p] = "td_delete"]
            /\ out' = out
    /\ UNCHANGED <<now, docs, tasks, lk, sched, hist>>

\* GTasksScheduler.Teardown(req, handled) up to its call of the queue: nil at
\* once if handled, the error of Unmarshal if req.SetupData does not decode
Teardown(p, r, data, handled) ==
    /\ Fresh(p)
    /\ req' = [req EXCEPT ![p] = [NoReq EXCEPT !.kind = "Teardown", !.id = r.WorkflowID,
                                                !.body = [Req |-> r, SetupData |-> data,
                                                          handled |-> handled]]]
    /\ op' = [op EXCEPT ![p] = "Teardown"]
    /\ IF handled
       THEN /\ pc' = [pc EXCEPT ![p] = "done"]
            /\ out' = [out EXCEPT ![p] = [ret |-> "ok", status |-> 0]]
       ELSE IF UnmarshalFails(data)
            THEN /\ pc' = [pc EXCEPT ![p] = "done"]
                 /\ out' = [out EXCEPT ![p] = [ret |-> "json_err", status |-> 0]]
            ELSE /\ pc' = [pc EXCEPT ![p] = "td_delete"]
                 /\ out' = out
    /\ UNCHANGED <<now, docs, tasks, lk, sched, hist>>

\* the queue's answer to Tasks.Delete(name): the task of that name is removed,
\* or the call is rejected (no such task, or a failure of the service)
Deleted(name, ok) == IF ok THEN {t \in tasks : TaskName(t) # name} ELSE tasks
DeleteRejected(name, ok) == ~ok \/ ~\E t \in tasks : TaskName(t) = name

TeardownDeleteStrict(p) ==
    /\ pc[p] = "td_delete"
    /\ \E ok \in BOOLEAN :
         LET name == UnmarshalID(req[p].body.SetupData)
         IN /\ tasks' = Deleted(name, ok)
            /\ Return(p, IF DeleteRejected(name, ok) THEN "delete_err" ELSE "ok")
    /\ UNCHANGED <<now, docs, req, op, sched, hist>>

\* Teardown: Tasks.Delete(data.ID).Do(), whose error is logged; return nil
TeardownDelete(p) ==
    /\ pc[p] = "td_delete"
    /\ \E ok \in BOOLEAN :
         tasks' = Deleted(UnmarshalID(req[p].body.SetupData), ok)
    /\ Return(p, "ok")
    /\ UNCHANGED <<now, docs, req, op, sched, hist>>

\* the scheduler's timeouts: Setup and Teardown calls made by the interpreter,
\* in any order and with any handle
NextTimer ==
    \E p \in Procs :
         \/ \E r \in TimerCallbacks : Setup(p, r)
         \/ \E r \in TimerCallbacks, data \in TimerData, handled \in BOOLEAN :
               Teardown(p, r, data, handled)
         \/ TeardownDelete(p)

SpecTimer == Init /\ [][NextTimer]_vars

\* ======================================================== the properties
\* p is between its successful Lock and its release of the lease
Holding(p) == pc[p] \in {"locked", "save", "unlock"}

\* p's Lock succeeds in this step
Acquires(p) == pc[p] = "lock_update" /\ pc'[p] = "locked"

\* p's Save is accepted by the store in this step
SaveAccepted(p) == pc[p] = "save" /\ pc'[p] \in {"wait", "done"} /\ docs' # docs

\* p owns the lease of id now: it acquired it last and it has not expired
HoldsLease(p, id) == hist.lastAcq[id] = p /\ now < docs[id].LockTill

\* the signature of request r is not the HMAC of r's own fields
BadSig(r) ==
    \/ r.kind = "ResumeReq" /\ r.body.Signature # Tag(Secret, r.body.ID)
    \/ /\ r.kind = "TimeoutReq"
       /\ r.body.Signature # Tag(Secret, r.body.Req.Name \o r.body.Req.ThreadID
                                  \o r.body.Req.WorkflowID \o ToString(r.body.Req.PC))

\* C1: for every id, at most one request is between its successful Lock and its
\* release of the lease.
C1_MutualExclusion ==
    \A id \in IDs : Cardinality({p \in Procs : Holding(p) /\ req[p].id = id}) <= 1

\* C2: of the Lock calls that read one document version with a free lease only
\* one has its conditional update accepted: an update is accepted only on the
\* version it read, it makes every other update on that version fail, and the
\* lease stored when a Lock succeeds is released or expired; a rejected Lock
\* goes back to its read (or fails) without success.
C2_LockRace ==
    [][/\ \A p \in Procs : Acquires(p) =>
          LET id == req[p].id
          IN /\ docs[id].UpdateTime = lk[p].ver
             /\ ~(now < docs[id].LockTill)
             /\ \A q \in Procs \ {p} :
                  (pc[q] = "lock_update" /\ req[q].id = id /\ lk[q].ver = lk[p].ver)
                      => docs'[id].UpdateTime # lk[q].ver
       /\ \A q \in Procs :
             (/\ pc[q] = "lock_update" /\ docs[req[q].id].UpdateTime # lk[q].ver
              /\ pc'[q] # pc[q])
                 => pc'[q] \in {"lock_read", "done"} /\ ~hist'.lockOk[q]]_vars

\* two Lock calls read the same version; one holds the lease, the other was
\* rejected and is back at its read
C2_Witness ==
    \E p, q \in Procs :
        /\ p # q /\ req[p].id = req[q].id
        /\ pc[p] = "locked" /\ pc[q] = "lock_read"
        /\ lk[q].i = 1 /\ lk[q].ver = lk[p].ver /\ lk[p].ver # 0

\* C3: every write of Meta/State to an existing document is made by a request
\* that holds the lease at that moment (acquired by Lock, not expired, nobody
\* has acquired it since).
C3_WritesUnderLease ==
    [][\A p \in Procs : SaveAccepted(p) => HoldsLease(p, req[p].id)]_vars

\* C4: two HandleEvent calls on one id never both save a result computed from
\* the same stored Meta/State.
C4_NoLostUpdate ==
    \A p, q \in Procs :
        (/\ p # q /\ req[p].id = req[q].id
         /\ op[p] = "HandleEvent" /\ op[q] = "HandleEvent"
         /\ hist.saved[p] # 0 /\ hist.saved[q] # 0)
            => hist.saved[p] # hist.saved[q]

\* C5: an operation that returns after its Lock succeeded has issued a write
\* that clears LockTill (Unlock, or an accepted Save with unlock = true).
C5_ReleaseOnEveryExit ==
    \A p \in Procs : (pc[p] = "done" /\ hist.lockOk[p]) => hist.released[p]

\* C6: a lease acquired at time t is LockTill = t + Lease; a Lock whose read
\* happens at or after LockTill sees the lease free, and its update is accepted
\* if nobody wrote the document in between.
C6_LeaseExpiry ==
    [][\A p \in Procs :
          LET id == req[p].id
          IN /\ Acquires(p) => docs'[id].LockTill = now + Lease
             /\ (/\ pc[p] = "lock_read" /\ docs[id].exists
                 /\ now >= docs[id].LockTill
                 /\ (pc'[p] # pc[p] \/ lk'[p] # lk[p]))
                    => pc'[p] = "lock_update"
             /\ (/\ pc[p] = "lock_update" /\ docs[id].UpdateTime = lk[p].ver
                 /\ pc'[p] # pc[p])
                    => pc'[p] \in {"locked", "done"}]_vars

\* p stopped while holding the lease and never released it; q read the expired
\* lease and acquired it
C6_Witness ==
    \E p, q \in Procs :
        /\ p # q /\ req[p].id = req[q].id
        /\ pc[p] = "locked" /\ pc[q] = "locked"
        /\ hist.lastAcq[req[q].id] = q
        /\ lk[q].wf.LockTill # 0 /\ lk[q].wf.LockTill <= now

\* C7: a /resume or /callback/timeout request whose Signature is not the HMAC
\* of its own fields is answered 403 without any engine call, and the step that
\* serves it leaves every document unchanged.
C7_SignatureGate ==
    [][\A p \in Procs :
          (req'[p].kind \in {"ResumeReq", "TimeoutReq"} /\ BadSig(req'[p]))
             => /\ pc'[p] = "done" /\ out'[p].status = 403
                /\ op'[p] = "none" /\ ~hist'.lockOk[p]
                /\ req[p].kind = "none" => docs' = docs]_vars

\* a forged timeout callback for the existing instance "a" was rejected
C7_Witness ==
    \E p \in Procs :
        /\ req[p].kind = "TimeoutReq" /\ req[p].id = "a" /\ BadSig(req[p])
        /\ docs["a"].exists /\ out[p].status = 403

OneFieldChanged(c) ==
    {u \in SigCallbacks :
        Cardinality({f \in {"Name", "ThreadID", "WorkflowID", "PC"} : u[f] # c[f]}) = 1}

\* r carries a signature that is valid for a request differing from r in
\* exactly one signed field
TamperedOneField(r) ==
    \/ /\ r.kind = "TimeoutReq"
       /\ \E u \in OneFieldChanged(r.body.Req) :
             r.body.Signature = Tag(Secret, u.Name \o u.ThreadID \o u.WorkflowID
                                            \o ToString(u.PC))
    \/ /\ r.kind = "ResumeReq"
       /\ \E id \in IDs \ {r.body.ID} : r.body.Signature = Tag(Secret, id)

\* C9: a request that carries the signature of a request differing from it in
\* exactly one signed field is rejected.
C9_SingleFieldTampering ==
    \A p \in Procs :
        TamperedOneField(req[p]) => (out[p].status = 403 /\ op[p] = "none")

\* a timeout request with only its ThreadID changed was rejected
C9_Witness ==
    \E p \in Procs :
        /\ req[p].kind = "TimeoutReq" /\ out[p].status = 403
        /\ \E u \in OneFieldChanged(req[p].body.Req) :
              /\ u.ThreadID # req[p].body.Req.ThreadID
              /\ req[p].body.Signature = TimeoutHMAC(Secret, [Req |-> u])

\* C10: an accepted Save writes Meta, State and LockTill = 0 in one step, and
\* Meta/State of an existing document change in no other step.
C10_AtomicCheckpoint ==
    [][/\ \A p \in Procs : SaveAccepted(p) =>
             LET d == docs'[req[p].id]
             IN d.Meta = lk[p].wf.Meta /\ d.State = lk[p].wf.State /\ d.LockTill = 0
       /\ \A id \in IDs :
             (docs[id].exists /\ (docs'[id].Meta # docs[id].Meta
                                  \/ docs'[id].State # docs[id].State))
                => \E p \in Procs : SaveAccepted(p) /\ req[p].id = id]_vars

\* a HandleEvent saved: the document holds its result and no lease
C10_Witness ==
    \E p \in Procs :
        /\ pc[p] = "wait" /\ op[p] = "HandleEvent"
        /\ docs[req[p].id].Meta = lk[p].wf.Meta
        /\ docs[req[p].id].State = lk[p].wf.State
        /\ docs[req[p].id].LockTill = 0
\* p's Save is accepted in this step, called by a user of the library
DirectSaved(p) == pc[p] = "locked" /\ op[p] = "Lock" /\ pc'[p] # pc[p]

\* C11: an accepted Save with unlock = true leaves LockTill zero, and a Lock
\* that reads a zero LockTill goes to its update at once and is accepted on the
\* version it read; an accepted Save with unlock = false leaves the lease as it
\* was, and while that lease is live no Lock of another caller succeeds: its
\* read sends it back to the loop or to the timeout.
C11_SaveThenLock ==
    [][\A p \in Procs :
          LET id == req[p].id
          IN /\ (DirectSaved(p) /\ pc'[p] = "done") => docs'[id].LockTill = 0
             /\ (DirectSaved(p) /\ pc'[p] = "unlock")
                    => docs'[id].LockTill = docs[id].LockTill
             /\ (/\ pc[p] = "lock_read" /\ docs[id].exists /\ docs[id].LockTill = 0
                 /\ (pc'[p] # pc[p] \/ lk'[p] # lk[p]))
                    => pc'[p] = "lock_update" /\ lk'[p].i = lk[p].i
             /\ (/\ pc[p] = "lock_update" /\ docs[id].UpdateTime = lk[p].ver
                 /\ pc'[p] # pc[p])
                    => pc'[p] = "locked"
             /\ (/\ pc[p] = "lock_read" /\ docs[id].exists /\ now < docs[id].LockTill
                 /\ (pc'[p] # pc[p] \/ lk'[p] # lk[p]))
                    => pc'[p] \in {"lock_read", "done"} /\ ~hist'.lockOk[p]
             /\ Acquires(p) =>
                    ~\E q \in Procs \ {p} :
                        /\ pc[q] = "unlock" /\ req[q].id = id
                        /\ HoldsLease(q, id)]_vars

\* p saved with unlock = true and returned; q then acquired the lease at its
\* first attempt on the state p saved, saved with unlock = false and still
\* holds the lease
C11_Witness ==
    \E p, q \in Procs :
        /\ p # q /\ req[p].id = req[q].id
        /\ op[p] = "Lock" /\ pc[p] = "done" /\ out[p].ret = "ok"
        /\ op[q] = "Lock" /\ pc[q] = "unlock" /\ lk[q].i = 0
        /\ hist.saved[q] = hist.saved[p] + 1
        /\ HoldsLease(q, req[q].id)
        /\ docs[req[q].id].Meta = lk[q].wf.Meta
\* the number of interpreter transitions the stored State went through, and
\* the number the stored Meta went through
StateSteps(d) == d.State - InitialState
MetaSteps(d) == d.Meta.PC - NewState(d.Meta.ID, d.Meta.Workflow).PC

\* C12: the stored Meta and State of every instance come from the same
\* interpreter transition: neither is ahead of the other.
C12_MetaStateConsistent ==
    \A id \in IDs : docs[id].exists => StateSteps(docs[id]) = MetaSteps(docs[id])

\* C13: the document that ScheduleAndCreate creates holds the Meta and the
\* State that result from the interpreter's initial Resume.
C13_CreatedStepped ==
    [][\A p \in Procs :
          (pc[p] = "sc_create" /\ ~docs[req[p].id].exists /\ docs'[req[p].id].exists)
             => /\ docs'[req[p].id].Meta = StepMeta(NewState(req[p].id, req[p].name))
                /\ docs'[req[p].id].State = StepState(InitialState)]_vars
\* p's ScheduleAndCreate has created the document
Created(p) ==
    /\ req[p].kind \in {"Create", "Direct"}
    /\ \/ op[p] = "Resume"
       \/ op[p] = "ScheduleAndCreate" /\ pc[p] = "done" /\ out[p].ret = "ok"

\* p's Create call is answered by the store in this step
CreateAnswered(p) == pc[p] = "sc_create" /\ pc'[p] # pc[p]

\* C14: of the ScheduleAndCreate calls with one id at most one creates the
\* document and the others return an error without writing; a document is
\* created by a Create call only, on an id that has none, and no step deletes
\* a document.
C14_CreateOnce ==
    [][/\ \A id \in IDs :
             /\ docs[id].exists => docs'[id].exists
             /\ (~docs[id].exists /\ docs'[id].exists)
                    => \E p \in Procs : CreateAnswered(p) /\ req[p].id = id
             /\ Cardinality({p \in Procs : req'[p].id = id /\ Created(p)'}) <= 1
       /\ \A p \in Procs : CreateAnswered(p) =>
             IF docs[req[p].id].exists
             THEN /\ docs' = docs
                  /\ pc'[p] = "done" /\ out'[p].ret = "exists"
                  /\ ~Created(p)'
             ELSE docs'[req[p].id] = CreatedDoc(lk[p].wf) /\ Created(p)']_vars

\* two concurrent ScheduleAndCreate calls with one id: one created the
\* document, the other failed
C14_Witness ==
    \E p, q \in Procs :
        /\ p # q /\ req[p].id = req[q].id
        /\ Created(p)
        /\ op[q] = "ScheduleAndCreate" /\ pc[q] = "done" /\ out[q].ret = "exists"
        /\ docs[req[p].id].exists
\* p's Lock call takes a step
LockSteps(p) ==
    /\ pc[p] \in {"lock_read", "lock_update"}
    /\ pc'[p] # pc[p] \/ lk'[p] # lk[p]

\* p's Lock returns the timeout error in this step
LockTimesOut(p) == pc[p] = "lock_read" /\ pc'[p] = "done" /\ out'[p].ret = "lock_timeout"

\* C15: the only step of a Lock call that changes a document is the one in
\* which it succeeds; a Lock that returns the timeout error has had no update
\* accepted and the step that returns it leaves every document as it is.
C15_TimeoutMutatesNothing ==
    [][\A p \in Procs :
          /\ (LockSteps(p) /\ docs' # docs) => Acquires(p)
          /\ LockTimesOut(p) => docs' = docs /\ ~hist'.lockOk[p]]_vars

\* a Lock returned the timeout error while another request holds the lease
C15_Witness ==
    \E p \in Procs :
        /\ pc[p] = "done" /\ out[p].ret = "lock_timeout"
        /\ \E q \in Procs \ {p} : pc[q] = "locked" /\ HoldsLease(q, req[p].id)
\* C16: a Lock call runs at most RetryLimit + 2 iterations of its loop (the
\* iterations numbered 0 to RetryLimit + 1), whatever the other requests do.
C16_BoundedLockLoop ==
    \A p \in Procs : lk[p].i <= RetryLimit + 1

\* p's Lock has found the lease held at every read so far
OnlyHeldReads(p) == pc[p] = "lock_read" /\ hist.base[p] = 0 /\ ~hist.lockOk[p]

\* C17: a Lock that finds the lease held at every read has made at most
\* RetryLimit retries when it returns the timeout: it never starts a read after
\* the one numbered RetryLimit.
C17_RetryBudget ==
    \A p \in Procs : (OnlyHeldReads(p) /\ lk[p].i > 0) => lk[p].i <= RetryLimit
\* the engine operations that start with Lock
LockingOps == {"HandleEvent", "HandleCallback", "Resume"}

\* C18: when the Lock of HandleEvent, HandleCallback or Resume fails, the
\* operation returns the error of Lock (timeout or store error) and nothing
\* else has happened: no interpreter call, no Save, no task, no goroutine, and
\* no step of the failed Lock has changed a document.
C18_AcquireFailure ==
    [][\A p \in Procs : (op[p] \in LockingOps /\ LockSteps(p)) =>
          /\ docs' = docs => pc'[p] \in {"lock_read", "lock_update", "done"}
          /\ ~Acquires(p) => docs' = docs /\ tasks' = tasks
          /\ pc'[p] = "done" =>
                /\ out'[p].ret \in {"lock_timeout", "store_err"}
                /\ out'[p].status \in {400, 500}
                /\ sched'[p] = NoSched /\ tasks' = tasks
                /\ hist'.saved[p] = 0 /\ ~hist'.lockOk[p]]_vars

\* a HandleCallback whose Lock timed out while another request held the
\* lease: it was answered 500 and left no trace
C18_Witness ==
    \E p \in Procs :
        /\ op[p] = "HandleCallback" /\ pc[p] = "done" /\ out[p].ret = "lock_timeout"
        /\ out[p].status = 500 /\ sched[p] = NoSched /\ tasks = {}
        /\ \E q \in Procs \ {p} : HoldsLease(q, req[p].id) /\ hist.saved[q] = 0
\* p holds the lease of a document whose workflow type is not registered
UnknownType(p) ==
    /\ op[p] \in LockingOps /\ pc[p] = "locked"
    /\ lk[p].wf.Meta.Workflow \notin Workflows

\* p is on the way out of an operation that failed with `ret` after its Lock
Failing(p, ret) == op[p] \in LockingOps /\ pc[p] = "unlock" /\ out[p].ret = ret

\* the step of p leaves Meta and State of every document as they are, starts
\* no goroutine and creates no task
NoEffect(p) ==
    /\ \A id \in IDs : docs'[id].Meta = docs[id].Meta /\ docs'[id].State = docs[id].State
    /\ tasks' = tasks /\ sched' = sched /\ sched[p] = NoSched
    /\ hist'.saved[p] = 0

\* how an operation fails on an unknown workflow type, up to its return:
\* no interpreter call, no Save, no Schedule, then Unlock, then the error
UnknownTypePath(p) ==
    /\ (UnknownType(p) /\ pc'[p] # pc[p])
          => /\ pc'[p] = "unlock" /\ out'[p].ret = "wf_not_found"
             /\ lk'[p] = lk[p] /\ docs' = docs /\ NoEffect(p)
    /\ (Failing(p, "wf_not_found") /\ pc'[p] # pc[p])
          => /\ pc'[p] = "done" /\ out'[p].ret = "wf_not_found"
             /\ out'[p].status \in {400, 500}
             /\ NoEffect(p)

\* C19: on an unknown workflow type HandleEvent, HandleCallback and Resume
\* return an error without interpreter call, Save or Schedule, Meta/State are
\* unchanged, and before returning they issue the Unlock, which clears the
\* lease whenever the store applies it.
C19_UnknownWorkflow ==
    [][\A p \in Procs :
          /\ UnknownTypePath(p)
          /\ (Failing(p, "wf_not_found") /\ pc'[p] # pc[p])
                => /\ hist'.released[p]
                   /\ docs' # docs => docs'[req[p].id].LockTill = 0]_vars

\* C19 as stated: the same, and the lease is cleared when the operation returns.
C19_LeaseClearedOnReturn ==
    [][\A p \in Procs :
          /\ UnknownTypePath(p)
          /\ (Failing(p, "wf_not_found") /\ pc'[p] # pc[p])
                => docs'[req[p].id].LockTill = 0]_vars

\* a Resume on the instance of the retired type returned the error; the
\* document is as it was created and its lease is clear
C19_Witness ==
    \E p \in Procs :
        /\ op[p] = "Resume" /\ pc[p] = "done" /\ out[p].ret = "wf_not_found"
        /\ hist.lockOk[p]
        /\ docs[req[p].id].Meta = CreatedWf(req[p].id, RetiredWorkflow).Meta
        /\ docs[req[p].id].State = InitialState
        /\ docs[req[p].id].LockTill = 0
\* how an operation fails on an error of the interpreter, up to its return:
\* no Save, no Schedule, the document as Lock read it, then Unlock, then the
\* error
InterpErrPath(p) ==
    /\ (op[p] \in LockingOps /\ pc[p] = "locked" /\ out'[p].ret = "interp_err")
          => /\ pc'[p] = "unlock"
             /\ docs' = docs /\ NoEffect(p)
    /\ Failing(p, "interp_err")
          => /\ hist.saved[p] = 0 /\ sched[p] = NoSched
             /\ HoldsLease(p, req[p].id)
                   => /\ docs[req[p].id].Meta = lk[p].wf.Meta
                      /\ docs[req[p].id].State = lk[p].wf.State
    /\ (Failing(p, "interp_err") /\ pc'[p] # pc[p])
          => /\ pc'[p] = "done" /\ out'[p].ret = "interp_err"
             /\ out'[p].status \in {400, 500}
             /\ NoEffect(p)

\* C20: when the interpreter returns an error the operation returns an error
\* without Save or Schedule, the stored Meta/State stay as Lock read them, and
\* before returning it issues the Unlock, which clears the lease whenever the
\* store applies it.
C20_InterpreterError ==
    [][\A p \in Procs :
          /\ InterpErrPath(p)
          /\ (Failing(p, "interp_err") /\ pc'[p] # pc[p])
                => /\ hist'.released[p]
                   /\ docs' # docs => docs'[req[p].id].LockTill = 0]_vars

\* C20 as stated: the same, and the lease is cleared when the operation returns.
C20_LeaseClearedOnReturn ==
    [][\A p \in Procs :
          /\ InterpErrPath(p)
          /\ (Failing(p, "interp_err") /\ pc'[p] # pc[p])
                => docs'[req[p].id].LockTill = 0]_vars

\* a HandleEvent whose interpreter call failed has returned: the document holds
\* what Lock read and no lease
C20_Witness ==
    \E p \in Procs :
        /\ op[p] = "HandleEvent" /\ pc[p] = "done" /\ out[p].ret = "interp_err"
        /\ out[p].status = 400 /\ hist.lockOk[p] /\ hist.released[p]
        /\ docs[req[p].id].Meta = CreatedWf(req[p].id, "checkout").Meta
        /\ docs[req[p].id].LockTill = 0
        /\ sched[p] = NoSched /\ tasks = {}
\* the operations that run Schedule next to Save
SchedulingOps == {"HandleEvent", "HandleCallback"}

\* the goroutine of p ends in this step (Schedule has returned, with or
\* without an error)
ScheduleEnds(p) == sched[p].st = "running" /\ sched'[p].st = "finished"

\* C21: in HandleEvent and HandleCallback the end of Schedule, failed or not,
\* changes neither the operation's course nor its result nor the store; an
\* accepted Save stores the new Meta/State and leads to the return of success
\* whatever Schedule did; a failed Save leads to the return of an error whatever
\* Schedule did.
C21_BestEffortSchedule ==
    [][\A p \in Procs : op[p] \in SchedulingOps =>
          /\ ScheduleEnds(p) => pc'[p] = pc[p] /\ out'[p] = out[p] /\ docs' = docs
          /\ SaveAccepted(p)
                => /\ pc'[p] = "wait"
                   /\ docs'[req[p].id].Meta = lk[p].wf.Meta
                   /\ docs'[req[p].id].State = lk[p].wf.State
          /\ (pc[p] = "wait" /\ pc'[p] # pc[p])
                => pc'[p] = "done" /\ out'[p].ret = "ok" /\ hist.saved[p] # 0
          /\ (pc[p] = "save" /\ pc'[p] # pc[p] /\ docs' = docs)
                => /\ pc'[p] = "done" /\ out'[p].ret = "save_err"
                   /\ out'[p].status \in {400, 500}]_vars

\* a HandleEvent returned success and its result is stored although its
\* Schedule failed: no task was created
C21_Witness ==
    \E p \in Procs :
        /\ op[p] = "HandleEvent" /\ pc[p] = "done" /\ out[p].ret = "ok"
        /\ out[p].status = 200
        /\ sched[p].st = "finished" /\ tasks = {}
        /\ hist.saved[p] # 0 /\ docs[req[p].id].Meta.PC = 2

\* C22: HandleEvent and HandleCallback have not returned while the Schedule
\* call they started is still running.
C22_JoinBeforeReply ==
    \A p \in Procs : pc[p] = "done" => sched[p].st # "running"
\* p's Teardown call starts in this step
TeardownStarts(p) == req[p].kind = "none" /\ req'[p].kind = "Teardown"

\* p's Teardown gets the queue's answer to its deletion call in this step
DeletionAnswered(p) == pc[p] = "td_delete" /\ pc'[p] # pc[p]

\* the handle that Setup returns for the timeout of callback r
HandleOf(r) == SetupHandle(TaskName(TimeoutTask(r)))

\* C23: Teardown with handled = true returns nil without a call of the queue;
\* with handled = false and the handle of the matching Setup it makes one
\* deletion call and returns; that call removes nothing but the task that
\* Setup created for the callback, and no other step removes a task.
C23_TeardownDeletion ==
    [][/\ \A p \in Procs :
             /\ TeardownStarts(p) =>
                   /\ tasks' = tasks
                   /\ req'[p].body.handled => pc'[p] = "done" /\ out'[p].ret = "ok"
                   /\ (~req'[p].body.handled /\ req'[p].body.SetupData = HandleOf(req'[p].body.Req))
                         => pc'[p] = "td_delete"
             /\ DeletionAnswered(p) =>
                   /\ ~req[p].body.handled
                   /\ pc'[p] = "done"
                   /\ tasks' \subseteq tasks
                   /\ \A t \in tasks \ tasks' :
                         /\ TaskName(t) = req[p].body.SetupData.ID
                         /\ req[p].body.SetupData = HandleOf(req[p].body.Req)
                               => t = TimeoutTask(req[p].body.Req)
       /\ ~(tasks \subseteq tasks') => \E p \in Procs : DeletionAnswered(p)]_vars

\* Setup created the timeout task of a callback and a Teardown with
\* handled = false and the handle of that Setup has deleted it
C23_Witness ==
    \E p, q \in Procs :
        /\ op[p] = "Setup" /\ out[p].ret = "ok"
        /\ op[q] = "Teardown" /\ pc[q] = "done" /\ out[q].ret = "ok"
        /\ ~req[q].body.handled
        /\ req[q].body.Req = req[p].body.Req
        /\ req[q].body.SetupData = HandleOf(req[p].body.Req)
        /\ tasks = {}

\* C24: whatever the queue answers to the deletion call, Teardown returns nil.
C24_TeardownTolerant ==
    [][\A p \in Procs :
          DeletionAnswered(p) => pc'[p] = "done" /\ out'[p].ret = "ok"]_vars

\* a Teardown returned nil although the queue rejected its deletion call: the
\* task is still in the queue
C24_Witness ==
    \E p \in Procs :
        /\ op[p] = "Teardown" /\ pc[p] = "done" /\ out[p].ret = "ok"
        /\ ~req[p].body.handled
        /\ \E t \in tasks : TaskName(t) = req[p].body.SetupData.ID
\* the create handler of p created the document and its inline Resume failed
InlineResumeFailed(p) ==
    /\ req[p].kind = "Create" /\ op[p] = "Resume"
    /\ pc[p] = "done" /\ out[p].ret # "ok"

\* C26: when the create handler has created the document and the inline Resume
\* that follows has failed, a signed resume task for the instance is in the
\* queue.
C26_FallbackResume ==
    \A p \in Procs : InlineResumeFailed(p) => ResumeTask(req[p].id) \in tasks
\* p's Get call is made and answered in this step
Gets(p) == req[p].kind = "none" /\ req'[p].kind = "Get"

\* C27: Get writes nothing to the store and takes no lease; it returns at once,
\* and for an existing document it returns the document as it is stored, also
\* while another request holds the lease.
C27_GetReadOnly ==
    [][\A p \in Procs : Gets(p) =>
          LET d == docs[req'[p].id]
          IN /\ docs' = docs /\ tasks' = tasks /\ hist' = hist
             /\ pc'[p] = "done"
             /\ d.exists =>
                   /\ out'[p] = [ret |-> "ok", status |-> 200]
                   /\ lk'[p].wf = [Meta |-> d.Meta, State |-> d.State,
                                    LockTill |-> d.LockTill]]_vars

\* a Get returned the document while another request was holding its lease
C27_Witness ==
    \E p, q \in Procs :
        /\ op[p] = "Get" /\ out[p].ret = "ok"
        /\ IsLocked(lk[p].wf.LockTill, now)
        /\ p # q /\ req[q].id = req[p].id /\ Holding(q) /\ HoldsLease(q, req[q].id)
        /\ docs[req[p].id].LockTill = lk[p].wf.LockTill

\* C28: a step that changes the LockTill of a document stores zero, or it is a
\* successful Lock and stores the current time plus the lease, which is later
\* than the current time; every successful Lock stores that value.
C28_LeaseValues ==
    [][/\ \A id \in IDs :
             docs'[id].LockTill # docs[id].LockTill =>
                \/ docs'[id].LockTill = 0
                \/ /\ docs'[id].LockTill = now + Lease
                   /\ docs'[id].LockTill > now'
                   /\ \E p \in Procs : Acquires(p) /\ req[p].id = id
       /\ \A p \in Procs : Acquires(p) =>
             /\ docs'[req[p].id].LockTill = now + Lease
             /\ IsLocked(docs'[req[p].id].LockTill, now')]_vars

\* a lease was taken after time had passed beyond the length of one lease, and
\* it is still running
C28_Witness ==
    \E id \in IDs, p \in Procs :
        /\ Holding(p) /\ hist.lastAcq[id] = p /\ req[p].id = id
        /\ docs[id].LockTill > Lease + Lease
        /\ IsLocked(docs[id].LockTill, now)

\* p's Unlock or Save(unlock = true) is answered by the store in this step
ReleaseAnswered(p) == pc[p] \in {"unlock", "save"} /\ pc'[p] # pc[p]

\* C30: the Unlock or Save of a request does not change the LockTill of a
\* lease that another request holds.
C30_NoForeignClear ==
    [][\A p, q \in Procs :
          (/\ ReleaseAnswered(p) /\ p # q
           /\ Holding(q) /\ req[q].id = req[p].id /\ HoldsLease(q, req[q].id))
          => docs'[req[p].id].LockTill = docs[req[p].id].LockTill]_vars
\* the Resume calls on id that have returned nil
ResumesDone(id) ==
    {p \in Procs : req[p].id = id /\ op[p] = "Resume" /\ pc[p] = "done" /\ out[p].ret = "ok"}

\* the document after n Resume calls have run on wf one after another
RECURSIVE AfterResumes(_, _)
AfterResumes(wf, n) ==
    IF n = 0 THEN wf
    ELSE AfterResumes([wf EXCEPT !.Meta = StepMeta(@), !.State = StepState(@)], n - 1)

\* C25: while no lease expires, at most one of the inline and the delivered
\* Resume calls of an instance is between its Lock and its release, and the
\* stored Meta and State are those of the created instance after the Resume
\* calls that returned nil, run one after another.
C25_RedundantResume ==
    \A id \in DocIDs :
        /\ Cardinality({p \in Procs : Holding(p) /\ req[p].id = id}) <= 1
        /\ docs[id].exists =>
              LET wf == AfterResumes(CreatedWf(id, "checkout"), Cardinality(ResumesDone(id)))
              IN docs[id].Meta = wf.Meta /\ docs[id].State = wf.State

\* the inline Resume and a delivered Resume of one instance both returned nil,
\* the second after it had found the lease held, and both steps are stored
C25_Witness ==
    \E p, q \in Procs :
        /\ req[p].kind = "Create" /\ req[q].kind = "ResumeReq" /\ req[q].queued
        /\ req[p].id = req[q].id
        /\ {p, q} \subseteq ResumesDone(req[p].id)
        /\ docs[req[p].id].Meta.PC = CreatedWf(req[p].id, "checkout").Meta.PC + 2
        /\ hist.lastAcq[req[p].id] = q
\* the document of p's instance as it was created
CreatedFor(p) == CreatedDoc(CreatedWf(req[p].id, "checkout"))

\* p ran the sequential HandleEvent and everything succeeded: it returned nil
\* (interpreter, Schedule and Checkpoint succeeded) and the store applied the
\* three writes of Lock, Checkpoint and Unlock
SeqSucceeded(p) ==
    /\ op[p] = "HandleEventSeq" /\ pc[p] = "done" /\ out[p].ret = "ok"
    /\ docs[req[p].id].UpdateTime = CreatedFor(p).UpdateTime + 3

\* p ran the HandleEvent that joins Save and Schedule and everything
\* succeeded: it returned nil and its Schedule call created the task
JoinSucceeded(p) ==
    /\ op[p] = "HandleEvent" /\ pc[p] = "done" /\ out[p].ret = "ok"
    /\ ResumeTask(req[p].id) \in tasks

\* documents d and e hold the same instance data under their own ids
SameInstance(d, e) ==
    /\ d.Meta.Workflow = e.Meta.Workflow /\ d.Meta.PC = e.Meta.PC
    /\ d.State = e.State
    /\ d.LockTill = e.LockTill

CreateFails(p) ==
    /\ op[p] = "ScheduleAndCreate" /\ pc[p] \in {"sc_unlock", "sc_create"}
    /\ pc'[p] = "done" /\ out'[p].ret # "ok"

\* C31: a ScheduleAndCreate that returns an error leaves every document as it
\* was, LockTill included.
C31_FailedCreateChangesNothing ==
    [][\A p \in Procs : CreateFails(p) =>
          \A id \in IDs :
              /\ docs'[id].exists = docs[id].exists
              /\ docs'[id].Meta = docs[id].Meta /\ docs'[id].State = docs[id].State
              /\ docs'[id].LockTill = docs[id].LockTill]_vars

\* C32: the snapshot a successful Lock returns holds the Meta and State that
\* are stored when its update of LockTill is accepted; the document has not
\* been written since the read that produced the snapshot.
C32_SnapshotFresh ==
    [][\A p \in Procs : Acquires(p) =>
          LET d == docs[req[p].id]
          IN /\ lk[p].wf.Meta = d.Meta /\ lk[p].wf.State = d.State
             /\ lk[p].ver = d.UpdateTime
             /\ hist.base[p] = hist.gen[req[p].id]
             /\ lk'[p].wf = lk[p].wf
             /\ docs'[req[p].id].Meta = d.Meta /\ docs'[req[p].id].State = d.State]_vars

\* a Lock succeeded on its second attempt, on a document that another request
\* had saved, and returned the saved Meta
C32_Witness ==
    \E p \in Procs :
        /\ pc[p] = "locked" /\ lk[p].i > 0
        /\ hist.gen[req[p].id] > 1
        /\ lk[p].wf.Meta = docs[req[p].id].Meta
        /\ lk[p].wf.Meta.PC > CreatedWf(req[p].id, "checkout").Meta.PC
\* the time Lock has slept when it has finished attempts 0 to n
RECURSIVE WaitsUpTo(_)
WaitsUpTo(n) == IF n < 0 THEN 0 ELSE Backoff(n) + WaitsUpTo(n - 1)

\* C33: the waits of attempts 0 to 50 add up to more than a lease, and a Lock
\* that meets only an abandoned lease never returns the timeout error, never
\* uses up its attempts, and acquires the lease.
C33_AbandonedLease ==
    /\ [](/\ WaitsUpTo(RetryLimit) * 100 = 127500
          /\ WaitsUpTo(RetryLimit) > LeaseTicks
          /\ \A p \in Procs : out[p].ret # "lock_timeout" /\ lk[p].i <= RetryLimit)
    /\ \A p \in Procs : (pc[p] = "lock_read") ~> (pc[p] = "locked")

\* a Lock acquired a lease that had a whole minute left when the call began:
\* it has slept for at least that long
C33_Witness ==
    \E p \in Procs :
        /\ pc[p] = "locked" /\ hist.lockOk[p]
        /\ WaitsUpTo(lk[p].i - 1) >= LeaseTicks
        /\ lk[p].wf.LockTill + LeaseTicks <= docs[req[p].id].LockTill
\* p's request did not pass the signature test of its handler
Rejected(p) == out[p].status = 403 /\ op[p] = "none"

\* C34: a timeout request that carries the signature of a callback request
\* with another (Name, ThreadID, WorkflowID, PC) is rejected.
C34_UnambiguousTuple ==
    \A p \in Procs :
        (/\ req[p].kind = "TimeoutReq"
         /\ \E u \in SigCallbacks :
               /\ u # req[p].body.Req
               /\ req[p].body.Signature = TimeoutHMAC(Secret, [Req |-> u]))
        => Rejected(p)

\* C35: a timeout request that carries the signature of a resume request, and
\* a resume request that carries the signature of a timeout request, are
\* rejected.
C35_DomainSeparation ==
    \A p \in Procs :
        /\ (/\ req[p].kind = "TimeoutReq"
            /\ \E id \in CrossIDs : req[p].body.Signature = ResumeHMAC(Secret, [ID |-> id]))
           => Rejected(p)
        /\ (/\ req[p].kind = "ResumeReq"
            /\ \E u \in SigCallbacks :
                  req[p].body.Signature = TimeoutHMAC(Secret, [Req |-> u]))
           => Rejected(p)
====
